---- MODULE Spec2Model ----
(***************************************************************************)
(* A model of the prs parser-combinator library (Parser.h and its          *)
(* implementation file).  A parser is a pure function from (start state,   *)
(* input string) to a ParseResult; the model represents a parser value as  *)
(* a record naming the combinator that built it and its captured           *)
(* arguments, and Run evaluates the captured lambda as the code does.      *)
(***************************************************************************)
EXTENDS Integers, Sequences, FiniteSets, TLC

\* ------------------------------------------------------------------ bounds

\* Longest input string enumerated over Alphabet.
MaxLen == 2

\* Number of bytes of mapped memory that may follow the string's terminator.
TailLen == 1

\* The stepwise Many loop keeps this many collected values more than the
\* memory has bytes; no run that ends collects as many.
MaxSpare == 1

\* Largest repetition count handed to AtLeast / Between.
MaxCount == 2

\* --------------------------------------------------------------- constants

\* std::stoi converts to int: the range of a 32-bit signed int.
INT_MAX == 2147483647

INT_MIN == -INT_MAX - 1

\* The terminator std::string stores at index size().
NUL == "\\0"

Alphabet == {"a", "b", "0", "1", " "}

\* Bytes that may lie in memory behind the terminator.
TailChars == {"a", "1"}

LowerCase ==
    {"a", "b", "c", "d", "e", "f", "g", "h", "i", "j", "k", "l", "m",
     "n", "o", "p", "q", "r", "s", "t", "u", "v", "w", "x", "y", "z"}

UpperCase ==
    {"A", "B", "C", "D", "E", "F", "G", "H", "I", "J", "K", "L", "M",
     "N", "O", "P", "Q", "R", "S", "T", "U", "V", "W", "X", "Y", "Z"}

DigitChars == {"0", "1", "2", "3", "4", "5", "6", "7", "8", "9"}

\* c >= 'a' && c <= 'z' || c >= 'A' && c <= 'Z'
IsLetter(c) == c \in LowerCase \/ c \in UpperCase

\* c >= '0' && c <= '9'
IsDigit(c) == c \in DigitChars

\* c == ' ' || c == '\n' || c == '\t'
IsWhitespace(c) == c = " " \/ c = "\n" \/ c = "\t"

IsAlphanumeric(c) == IsLetter(c) \/ IsDigit(c)

Max(a, b) == IF a >= b THEN a ELSE b

VARIABLES
    input,      \* the std::string handed to the parser
    tail,       \* the mapped bytes behind the string's terminator
    start,      \* the start position of the invocation
    pc,         \* "ready", "loop" (inside Many's while loop), or how the call ended
    call,       \* the parser value that was invoked
    result,     \* what the invocation produced
    position,   \* Many's local `position`
    results     \* Many's local `results`

vars == <<input, tail, start, pc, call, result, position, results>>

\* ------------------------------------------------------------------ memory

\* The bytes an index into the string can reach: the characters, the
\* terminator at index size(), then whatever is mapped behind it.
Mem == input \o <<NUL>> \o tail

\* string.length()
Length == Len(input)

\* Whether reading string[i] touches mapped memory at all.
Mapped(i) == i >= 0 /\ i < Len(Mem)

\* string[i] for a mapped index (0-based).
At(i) == Mem[i + 1]

\* ----------------------------------------------------------------- results

\* std::optional<T> holding nothing.
Nullopt == [t |-> "nullopt"]

\* struct Void { }
Void == [t |-> "Void"]

CharValue(c) == [t |-> "char", v |-> c]

StringValue(s) == [t |-> "string", v |-> s]

IntValue(n) == [t |-> "int", v |-> n]

VectorValue(xs) == [t |-> "vector", v |-> xs]

\* struct Pair { T1 first; T2 second; }
Pair(first, second) == [t |-> "pair", first |-> first, second |-> second]

\* struct StringState { bool success = true; int position = 0; }
StringState(success, pos) == [success |-> success, position |-> pos]

\* ParseResult<T> Success(int position, T result)
Success(pos, value) == [success |-> TRUE, position |-> pos, value |-> value]

\* ParseResult<T> Fail(int position)
Fail(pos) == [success |-> FALSE, position |-> pos, value |-> Nullopt]

\* An invocation that returned the ParseResult r, having read the string up
\* to index maxRead (-1: no character was read).
Returned(r, maxRead) ==
    [outcome |-> "returned", success |-> r.success, position |-> r.position,
     value |-> r.value, maxRead |-> maxRead]

\* An invocation that produced no ParseResult: "threw" (an exception left the
\* parser), "faulted" (a read outside mapped memory), "hangs" (a loop that
\* never exits), "illformed" (a call no overload accepts).
NoResult(kind, maxRead) ==
    [outcome |-> kind, success |-> FALSE, position |-> -1,
     value |-> Nullopt, maxRead |-> maxRead]

\* ------------------------------------------------------------ leaf parsers

\* Char(character): bool success = string[state.position] == character
Char(character, state) ==
    IF ~Mapped(state.position) THEN NoResult("faulted", state.position)
    ELSE LET success == At(state.position) = character
         IN  IF success
             THEN Returned(Success(state.position + 1, CharValue(character)),
                           state.position)
             ELSE Returned(Fail(state.position), state.position)

\* String(pattern): the loop from index i of the pattern on; the character is
\* read before the index is compared with string.length().
RECURSIVE StringFrom(_, _, _)
StringFrom(pattern, state, i) ==
    IF i >= Len(pattern)
    THEN Returned(Success(state.position + Len(pattern), StringValue(pattern)),
                  state.position + i - 1)
    ELSE IF ~Mapped(state.position + i)
    THEN NoResult("faulted", state.position + i)
    ELSE IF At(state.position + i) # pattern[i + 1] \/ state.position + i >= Length
    THEN Returned(Fail(state.position), state.position + i)
    ELSE StringFrom(pattern, state, i + 1)

String(pattern, state) ==
    IF Len(pattern) = 0
    THEN Returned(Success(state.position, StringValue(pattern)), -1)
    ELSE StringFrom(pattern, state, 0)

\* any: the only single-character parser that compares with the length first.
any(state) ==
    IF state.position < Length
    THEN Returned(Success(state.position + 1, CharValue(At(state.position))),
                  state.position)
    ELSE Returned(Fail(state.position), -1)

letter(state) ==
    IF ~Mapped(state.position) THEN NoResult("faulted", state.position)
    ELSE LET c == At(state.position)
         IN  IF IsLetter(c)
             THEN Returned(Success(state.position + 1, CharValue(c)), state.position)
             ELSE Returned(Fail(state.position), state.position)

digit(state) ==
    IF ~Mapped(state.position) THEN NoResult("faulted", state.position)
    ELSE LET c == At(state.position)
         IN  IF IsDigit(c)
             THEN Returned(Success(state.position + 1, CharValue(c)), state.position)
             ELSE Returned(Fail(state.position), state.position)

whitespace(state) ==
    IF ~Mapped(state.position) THEN NoResult("faulted", state.position)
    ELSE LET c == At(state.position)
         IN  IF IsWhitespace(c)
             THEN Returned(Success(state.position + 1, CharValue(c)), state.position)
             ELSE Returned(Fail(state.position), state.position)

alphanumeric(state) ==
    IF ~Mapped(state.position) THEN NoResult("faulted", state.position)
    ELSE LET c == At(state.position)
         IN  IF IsAlphanumeric(c)
             THEN Returned(Success(state.position + 1, CharValue(c)), state.position)
             ELSE Returned(Fail(state.position), state.position)

\* AnyOf(characters): the character-set form.
AnyOfChars(characters, state) ==
    IF state.position < Length
    THEN IF \E i \in 1..Len(characters) : At(state.position) = characters[i]
         THEN LET i == CHOOSE k \in 1..Len(characters) :
                         /\ At(state.position) = characters[k]
                         /\ \A j \in 1..(k - 1) : At(state.position) # characters[j]
              IN  Returned(Success(state.position + 1, CharValue(characters[i])),
                           state.position)
         ELSE Returned(Fail(state.position),
                       IF Len(characters) = 0 THEN -1 ELSE state.position)
    ELSE Returned(Fail(state.position), -1)

\* std::string::substr(pos, count) on the input: it throws std::out_of_range
\* when pos > size(), and otherwise clamps the count to the characters left.
SubstrThrows(pos) == pos > Length

Substr(pos, count) ==
    SubSeq(input, pos + 1, IF pos + count < Length THEN pos + count ELSE Length)

\* The while (true) loop of whitespaces / letters / digits / alphanumerics
\* from `pos` on: the position of the first character outside the class, or
\* -1 when the loop runs off mapped memory first.  cls names the class.
InClass(cls, c) ==
    CASE cls = "whitespace" -> IsWhitespace(c)
      [] cls = "letter" -> IsLetter(c)
      [] cls = "digit" -> IsDigit(c)
      [] cls = "alphanumeric" -> IsAlphanumeric(c)

RECURSIVE ScanWhile(_, _)
ScanWhile(cls, pos) ==
    IF ~Mapped(pos) THEN -1
    ELSE IF InClass(cls, At(pos)) THEN ScanWhile(cls, pos + 1)
    ELSE pos

\* The body shared by the four zero-or-more class parsers: scan, then
\* return Success(position, string.substr(state.position, count)).
ClassRun(cls, state) ==
    LET pos == ScanWhile(cls, state.position)
    IN  IF pos = -1 THEN NoResult("faulted", Len(Mem))
        ELSE IF SubstrThrows(state.position) THEN NoResult("threw", pos)
        ELSE LET count == pos - state.position
             IN  Returned(Success(pos, StringValue(Substr(state.position, count))), pos)

whitespaces(state) == ClassRun("whitespace", state)

letters(state) == ClassRun("letter", state)

digits(state) == ClassRun("digit", state)

alphanumerics(state) == ClassRun("alphanumeric", state)

\* ------------------------------------------------------------- std::stoi

DigitOf(c) ==
    CASE c = "0" -> 0 [] c = "1" -> 1 [] c = "2" -> 2 [] c = "3" -> 3
      [] c = "4" -> 4 [] c = "5" -> 5 [] c = "6" -> 6 [] c = "7" -> 7
      [] c = "8" -> 8 [] c = "9" -> 9

\* The magnitude accumulated over the digits of str from index i on.  "n" is
\* a magnitude of at most INT_MAX, "min" is exactly INT_MAX + 1 (the magnitude
\* of INT_MIN), "over" is anything larger.
RECURSIVE Magnitude(_, _, _)
Magnitude(str, i, acc) ==
    IF i > Len(str) \/ ~IsDigit(str[i]) THEN acc
    ELSE LET d == DigitOf(str[i])
             cut == INT_MAX \div 10
             lim == INT_MAX % 10
             next ==
                 IF acc.k # "n" THEN [k |-> "over", m |-> 0]
                 ELSE IF acc.m < cut \/ (acc.m = cut /\ d <= lim)
                 THEN [k |-> "n", m |-> acc.m * 10 + d]
                 ELSE IF acc.m = cut /\ d = lim + 1 THEN [k |-> "min", m |-> 0]
                 ELSE [k |-> "over", m |-> 0]
         IN  Magnitude(str, i + 1, next)

\* std::stoi(str) for a str with no leading whitespace: an optional sign,
\* then digits.  No digit: std::invalid_argument.  A value outside
\* [INT_MIN, INT_MAX]: std::out_of_range.
Stoi(str) ==
    LET negative == Len(str) > 0 /\ str[1] = "-"
        first == IF Len(str) > 0 /\ (str[1] = "-" \/ str[1] = "+") THEN 2 ELSE 1
        mag == Magnitude(str, first, [k |-> "n", m |-> 0])
    IN  IF first > Len(str) \/ ~IsDigit(str[first])
        THEN [threw |-> "invalid_argument", v |-> 0]
        ELSE IF mag.k = "n"
        THEN [threw |-> "no", v |-> IF negative THEN -mag.m ELSE mag.m]
        ELSE IF mag.k = "min" /\ negative
        THEN [threw |-> "no", v |-> INT_MIN]
        ELSE [threw |-> "out_of_range", v |-> 0]

\* integer
integer(state) ==
    IF ~Mapped(state.position) THEN NoResult("faulted", state.position)
    ELSE
    LET c == At(state.position)
        pos == IF c = "-" THEN state.position + 1 ELSE state.position
    IN  IF ~Mapped(pos + 1) THEN NoResult("faulted", IF Mapped(pos) THEN pos + 1 ELSE pos)
        ELSE
        LET c1 == At(pos)
            c2 == At(pos + 1)
        IN  IF c1 = "0" /\ IsDigit(c2)
            THEN Returned(Fail(state.position), pos + 1)
            ELSE
            LET end == ScanWhile("digit", pos)
            IN  IF end = -1 THEN NoResult("faulted", Len(Mem))
                ELSE IF SubstrThrows(state.position)
                THEN NoResult("threw", Max(end, pos + 1))
                ELSE
                LET count == end - state.position
                    conv == Stoi(Substr(state.position, count))
                IN  IF conv.threw # "no"
                    THEN NoResult("threw", Max(end, pos + 1))
                    ELSE Returned(Success(end, IntValue(conv.v)),
                                  Max(end, pos + 1))

\* ------------------------------------------------------------- parser values

\* A Parser<T> value: the combinator that built it and what its lambda captured.
P_Char(c) == [op |-> "Char", character |-> c]

P_String(s) == [op |-> "String", pattern |-> s]

P_Leaf(name) == [op |-> name]

P_AnyOfChars(cs) == [op |-> "AnyOfChars", characters |-> cs]

P_Map(p, f) == [op |-> "Map", parser |-> p, function |-> f]

P_Discard(p) == [op |-> "Discard", parser |-> p]

P_Or(a, b) == [op |-> "Or", first |-> a, second |-> b]

P_Try(p, d) == [op |-> "Try", parser |-> p, failResult |-> d]

P_Many(p) == [op |-> "Many", parser |-> p]

P_AtLeast(n, p) == [op |-> "AtLeast", count |-> n, parser |-> p]

P_AtLeastOne(p) == [op |-> "AtLeastOne", parser |-> p]

P_Between(lo, hi, p) == [op |-> "Between", min |-> lo, max |-> hi, parser |-> p]

P_AnyOf(ps) == [op |-> "AnyOf", p |-> ps]

P_Not(p) == [op |-> "Not", parser |-> p]

\* Whether the parser is a Parser<Void>: what overload resolution of
\* operator>> looks at.
ReturnsVoid(p) == p.op \in {"Discard", "Not", "SeqVV"}

\* first >> second: the overload the argument types select.
P_Seq(a, b) ==
    [op |-> IF ReturnsVoid(a) /\ ReturnsVoid(b) THEN "SeqVV"
            ELSE IF ReturnsVoid(b) THEN "SeqTV"
            ELSE IF ReturnsVoid(a) THEN "SeqVT"
            ELSE "SeqTT",
     first |-> a, second |-> b]

\* The functions handed to operator| in the repository.
Apply(function, value) ==
    CASE function = "second" -> value.second
      [] function = "pairToString" -> StringValue(<<value.first.v, value.second.v>>)

\* The invocation r with the reads of an enclosing parser added.
WithReads(r, maxRead) == [r EXCEPT !.maxRead = Max(r.maxRead, maxRead)]

\* --------------------------------------------------------------- combinators

\* Parser<T>::operator()(string, position): parser({ true, position }, string)
RECURSIVE Invoke(_, _)

\* operator| (map)
Map(parser, function, state) ==
    LET r == Invoke(parser, state.position)
    IN  IF r.outcome # "returned" THEN r
        ELSE IF r.success
        THEN Returned(Success(r.position, Apply(function, r.value)), r.maxRead)
        ELSE Returned(Fail(state.position), r.maxRead)

\* operator~ (discard)
Discard(parser, state) ==
    LET r == Invoke(parser, state.position)
    IN  IF r.outcome # "returned" THEN r
        ELSE IF r.success
        THEN Returned(Success(r.position, Void), r.maxRead)
        ELSE Returned(Fail(state.position), r.maxRead)

\* operator>>(Parser<T>, Parser<Void>): the first value is kept.
SequenceTV(first, second, state) ==
    IF ~state.success THEN Returned(Fail(state.position), -1)
    ELSE
    LET firstResult == Invoke(first, state.position)
    IN  IF firstResult.outcome # "returned" THEN firstResult
        ELSE IF ~firstResult.success
        THEN Returned(Fail(state.position), firstResult.maxRead)
        ELSE
        LET secondResult == Invoke(second, firstResult.position)
            m == Max(firstResult.maxRead, secondResult.maxRead)
        IN  IF secondResult.outcome # "returned" THEN WithReads(secondResult, m)
            ELSE IF ~secondResult.success THEN Returned(Fail(state.position), m)
            ELSE Returned(Success(secondResult.position, firstResult.value), m)

\* operator>>(Parser<Void>, Parser<T>): the second value is kept.
SequenceVT(first, second, state) ==
    IF ~state.success THEN Returned(Fail(state.position), -1)
    ELSE
    LET firstResult == Invoke(first, state.position)
    IN  IF firstResult.outcome # "returned" THEN firstResult
        ELSE IF ~firstResult.success
        THEN Returned(Fail(state.position), firstResult.maxRead)
        ELSE
        LET secondResult == Invoke(second, firstResult.position)
            m == Max(firstResult.maxRead, secondResult.maxRead)
        IN  IF secondResult.outcome # "returned" THEN WithReads(secondResult, m)
            ELSE IF ~secondResult.success THEN Returned(Fail(state.position), m)
            ELSE Returned(Success(secondResult.position, secondResult.value), m)

\* operator>>(Parser<Void>, Parser<Void>)
SequenceVV(first, second, state) ==
    IF ~state.success THEN Returned(Fail(state.position), -1)
    ELSE
    LET firstResult == Invoke(first, state.position)
    IN  IF firstResult.outcome # "returned" THEN firstResult
        ELSE IF ~firstResult.success
        THEN Returned(Fail(state.position), firstResult.maxRead)
        ELSE
        LET secondResult == Invoke(second, firstResult.position)
            m == Max(firstResult.maxRead, secondResult.maxRead)
        IN  IF secondResult.outcome # "returned" THEN WithReads(secondResult, m)
            ELSE IF ~secondResult.success THEN Returned(Fail(state.position), m)
            ELSE Returned(Success(secondResult.position, Void), m)

\* SequenceTT with the failure of `second` reported where `second` started.
SequenceTTFailsAtSecond(first, second, state) ==
    LET firstResult == Invoke(first, state.position)
    IN  IF firstResult.outcome # "returned" THEN firstResult
        ELSE IF ~firstResult.success
        THEN Returned(Fail(state.position), firstResult.maxRead)
        ELSE
        LET secondResult == Invoke(second, firstResult.position)
            m == Max(firstResult.maxRead, secondResult.maxRead)
        IN  IF secondResult.outcome # "returned" THEN WithReads(secondResult, m)
            ELSE IF ~secondResult.success
            THEN Returned(Fail(firstResult.position), m)
            ELSE Returned(Success(secondResult.position,
                                  Pair(firstResult.value, secondResult.value)), m)

\* operator>>(Parser<T1>, Parser<T2>): both values, as a Pair.
SequenceTT(first, second, state) ==
    IF ~state.success THEN Returned(Fail(state.position), -1)
    ELSE
    LET firstResult == Invoke(first, state.position)
    IN  IF firstResult.outcome # "returned" THEN firstResult
        ELSE IF ~firstResult.success
        THEN Returned(Fail(state.position), firstResult.maxRead)
        ELSE
        LET secondResult == Invoke(second, firstResult.position)
            m == Max(firstResult.maxRead, secondResult.maxRead)
        IN  IF secondResult.outcome # "returned" THEN WithReads(secondResult, m)
            ELSE IF ~secondResult.success THEN Returned(Fail(state.position), m)
            ELSE Returned(Success(secondResult.position,
                                  Pair(firstResult.value, secondResult.value)), m)

\* Alternation that gives up when `first` fails.
AlternationFirstOnly(first, second, state) ==
    LET firstResult == Invoke(first, state.position)
    IN  IF firstResult.outcome # "returned" THEN firstResult
        ELSE IF firstResult.success THEN firstResult
        ELSE Returned(Fail(state.position), firstResult.maxRead)

\* operator||
Alternation(first, second, state) ==
    LET firstResult == Invoke(first, state.position)
    IN  IF firstResult.outcome # "returned" THEN firstResult
        ELSE IF firstResult.success THEN firstResult
        ELSE
        LET secondResult == Invoke(second, state.position)
            m == Max(firstResult.maxRead, secondResult.maxRead)
        IN  IF secondResult.outcome # "returned" THEN WithReads(secondResult, m)
            ELSE IF secondResult.success THEN WithReads(secondResult, m)
            ELSE Returned(Fail(state.position), m)

\* Try(parser, failResult)
Try(parser, failResult, state) ==
    LET r == Invoke(parser, state.position)
    IN  IF r.outcome # "returned" THEN r
        ELSE IF r.success THEN r
        ELSE Returned(Success(state.position, failResult), r.maxRead)

\* Not as a zero-width lookahead.
NotZeroWidth(parser, state) ==
    LET r == Invoke(parser, state.position)
    IN  IF r.outcome # "returned" THEN r
        ELSE IF r.success THEN Returned(Fail(state.position), r.maxRead)
        ELSE Returned(Success(state.position, Void), r.maxRead)

\* Not(parser)
Not(parser, state) ==
    LET r == Invoke(parser, state.position)
    IN  IF r.outcome # "returned" THEN r
        ELSE IF r.success THEN Returned(Fail(state.position), r.maxRead)
        ELSE Returned(Success(state.position + 1, Void), r.maxRead)

\* One pass through the body of Many's while (true), entered with the locals
\* `position` = pos and `results` = collected: "return" (a break, then
\* return Success(position, results)), "continue" (the next pass), or
\* "abort" (the application of the sub-parser produced no ParseResult).
ManyBody(parser, pos, collected) ==
    IF pos = Length
    THEN [next |-> "return", position |-> pos, results |-> collected,
          tempResult |-> NoResult("none", -1)]
    ELSE LET tempResult == Invoke(parser, pos)
         IN  IF tempResult.outcome # "returned"
             THEN [next |-> "abort", position |-> pos, results |-> collected,
                   tempResult |-> tempResult]
             ELSE IF tempResult.success
             THEN [next |-> "continue", position |-> tempResult.position,
                   results |-> Append(collected, tempResult.value),
                   tempResult |-> tempResult]
             ELSE [next |-> "return", position |-> pos, results |-> collected,
                   tempResult |-> tempResult]

\* Many's loop run to its end.  A pass that continues with `position`
\* unchanged repeats for ever, since `position` is all the loop's control
\* depends on; so does a pass that continues from behind mapped memory,
\* where the application read nothing.
RECURSIVE ManyLoop(_, _, _, _)
ManyLoop(parser, pos, collected, maxRead) ==
    LET b == ManyBody(parser, pos, collected)
        m == Max(maxRead, b.tempResult.maxRead)
    IN  CASE b.next = "return" ->
                Returned(Success(b.position, VectorValue(b.results)), m)
          [] b.next = "abort" -> WithReads(b.tempResult, m)
          [] b.next = "continue" ->
                IF b.position = pos \/ pos >= Len(Mem)
                THEN NoResult("hangs", m)
                ELSE ManyLoop(parser, b.position, b.results, m)

\* Many(parser)
Many(parser, state) == ManyLoop(parser, state.position, <<>>, -1)

\* AtLeast(count, parser)
AtLeast(count, parser, state) ==
    LET matches == Invoke(P_Many(parser), state.position)
    IN  IF matches.outcome # "returned" THEN matches
        ELSE IF Len(matches.value.v) >= count
        THEN Returned(Success(matches.position, matches.value), matches.maxRead)
        ELSE Returned(Fail(state.position), matches.maxRead)

\* AtLeastOne(parser): its lambda calls AtLeast(parser, 1), the arguments in
\* the wrong order.  AtLeast takes (uint32_t, const Parser<T>&); nothing
\* converts a Parser<T> to uint32_t and T cannot be deduced from an int, so
\* no instantiation of AtLeastOne has a function to call.
AtLeastOne(parser, state) ==
    LET arg1 == [type |-> "Parser", parser |-> parser]
        arg2 == [type |-> "int", n |-> 1]
    IN  IF arg1.type = "int" /\ arg2.type = "Parser"
        THEN AtLeast(arg1.n, arg2.parser, state)
        ELSE NoResult("illformed", -1)

\* Between(min, max, parser)
Between(min, max, parser, state) ==
    LET matches == Invoke(P_Many(parser), state.position)
    IN  IF matches.outcome # "returned" THEN matches
        ELSE IF Len(matches.value.v) >= min /\ Len(matches.value.v) <= max
        THEN Returned(Success(matches.position, matches.value), matches.maxRead)
        ELSE Returned(Fail(state.position), matches.maxRead)

\* AnyOf(parsers), the list form: the for loop from index i on.
RECURSIVE AnyOfFrom(_, _, _, _)
AnyOfFrom(p, state, i, maxRead) ==
    IF i > Len(p) THEN Returned(Fail(state.position), maxRead)
    ELSE LET r == Invoke(p[i], state.position)
             m == Max(maxRead, r.maxRead)
         IN  IF r.outcome # "returned" THEN WithReads(r, m)
             ELSE IF r.success THEN WithReads(r, m)
             ELSE AnyOfFrom(p, state, i + 1, m)

AnyOf(p, state) ==
    IF state.position < Length THEN AnyOfFrom(p, state, 1, -1)
    ELSE Returned(Fail(state.position), -1)

\* word = whitespaces >> letters | [](const auto& pair) { return pair.second; }
word == P_Map(P_Seq(P_Leaf("whitespaces"), P_Leaf("letters")), "second")

\* The lambda a parser value holds, applied to a start state.
Lambda(p, state) ==
    CASE p.op = "Char" -> Char(p.character, state)
      [] p.op = "String" -> String(p.pattern, state)
      [] p.op = "any" -> any(state)
      [] p.op = "letter" -> letter(state)
      [] p.op = "digit" -> digit(state)
      [] p.op = "whitespace" -> whitespace(state)
      [] p.op = "alphanumeric" -> alphanumeric(state)
      [] p.op = "whitespaces" -> whitespaces(state)
      [] p.op = "letters" -> letters(state)
      [] p.op = "digits" -> digits(state)
      [] p.op = "alphanumerics" -> alphanumerics(state)
      [] p.op = "integer" -> integer(state)
      [] p.op = "AnyOfChars" -> AnyOfChars(p.characters, state)
      [] p.op = "Map" -> Map(p.parser, p.function, state)
      [] p.op = "Discard" -> Discard(p.parser, state)
      [] p.op = "SeqTV" -> SequenceTV(p.first, p.second, state)
      [] p.op = "SeqVT" -> SequenceVT(p.first, p.second, state)
      [] p.op = "SeqVV" -> SequenceVV(p.first, p.second, state)
      [] p.op = "SeqTT" -> SequenceTT(p.first, p.second, state)
      [] p.op = "Or" -> Alternation(p.first, p.second, state)
      [] p.op = "Try" -> Try(p.parser, p.failResult, state)
      [] p.op = "Many" -> Many(p.parser, state)
      [] p.op = "AtLeast" -> AtLeast(p.count, p.parser, state)
      [] p.op = "AtLeastOne" -> AtLeastOne(p.parser, state)
      [] p.op = "Between" -> Between(p.min, p.max, p.parser, state)
      [] p.op = "AnyOf" -> AnyOf(p.p, state)
      [] p.op = "Not" -> Not(p.parser, state)

Invoke(p, pos) == Lambda(p, StringState(TRUE, pos))

\* ------------------------------------------------------------ what is run

a1 == P_Char("a")

b1 == P_Char("b")

\* main(): parsea >> parseb | [](const auto& results) { ... }
parseab == P_Map(P_Seq(a1, b1), "pairToString")

\* The primitive leaf parsers of the library.
Leaves ==
    {a1, b1, P_String(<<"a", "b">>), P_String(<<>>), P_AnyOfChars(<<"b", "0">>),
     P_Leaf("any"), P_Leaf("letter"), P_Leaf("digit"), P_Leaf("whitespace"),
     P_Leaf("alphanumeric"), P_Leaf("whitespaces"), P_Leaf("letters"),
     P_Leaf("digits"), P_Leaf("alphanumerics"), P_Leaf("integer")}

\* Parser<char> values that combinators are applied to.
CharSubs ==
    {a1, P_Leaf("letter"), P_Leaf("digit"), P_Leaf("any"),
     P_Try(a1, CharValue("z"))}

\* Parser<std::string> values that combinators are applied to.
StringSubs == {P_Leaf("letters"), P_String(<<"a", "b">>), parseab, word}

\* Parser<int> values that combinators are applied to.
IntSubs == {P_Leaf("integer"), P_Try(P_Leaf("integer"), IntValue(0))}

\* Parser<Void> values that combinators are applied to.
VoidSubs == {P_Not(a1), P_Discard(P_Leaf("letter"))}

\* Parser<std::vector<char>> values that combinators are applied to.
VectorSubs == {P_Many(P_Leaf("letter"))}

Subs == CharSubs \cup StringSubs \cup IntSubs \cup VoidSubs \cup VectorSubs

\* The sub-parsers of the counted repetitions.
CountedSubs ==
    {a1, P_Leaf("letter"), P_Leaf("any"), P_Leaf("integer"),
     P_Try(a1, CharValue("z"))}

\* A value of the parser's result type, for Try's failResult.
DefaultOf(p) ==
    IF p \in CharSubs THEN CharValue("z")
    ELSE IF p \in StringSubs THEN StringValue(<<>>)
    ELSE IF p \in IntSubs THEN IntValue(0)
    ELSE IF p \in VoidSubs THEN Void
    ELSE VectorValue(<<>>)

SameType(a, b) ==
    \E S \in {CharSubs, StringSubs, IntSubs, VoidSubs, VectorSubs} :
        a \in S /\ b \in S

\* The parser values the model invokes.
Parsers ==
    Leaves \cup Subs
    \cup {P_Seq(a, b) : a \in Subs, b \in Subs}
    \cup {P_Or(ab[1], ab[2]) : ab \in {x \in Subs \X Subs : SameType(x[1], x[2])}}
    \cup {P_Discard(p) : p \in Subs}
    \cup {P_Not(p) : p \in Subs}
    \cup {P_Try(p, DefaultOf(p)) : p \in Subs}
    \cup {P_Many(p) : p \in Subs}
    \cup {P_AtLeastOne(p) : p \in CountedSubs}
    \cup {P_AtLeast(n, p) : n \in 0..MaxCount, p \in CountedSubs}
    \cup {P_Between(nm[1], nm[2], p) :
            nm \in {x \in (0..MaxCount) \X (0..MaxCount) : x[1] <= x[2]},
            p \in CountedSubs}
    \cup {P_AnyOf(<<a1, P_Leaf("digit")>>), P_AnyOf(<<>>)}

\* The strings of at most MaxLen characters of Alphabet.
ShortInputs == UNION {[1..n -> Alphabet] : n \in 0..MaxLen}

\* Inputs around the integer literal's sign and the limits of int.
IntegerInputs ==
    {<<"-">>, <<"-", "1">>, <<"-", "0", "1">>, <<"1", "2", "a">>,
     <<"2", "1", "4", "7", "4", "8", "3", "6", "4", "7">>,
     <<"2", "1", "4", "7", "4", "8", "3", "6", "4", "8">>,
     <<"-", "2", "1", "4", "7", "4", "8", "3", "6", "4", "8">>,
     <<"-", "2", "1", "4", "7", "4", "8", "3", "6", "4", "9">>}

Inputs == ShortInputs \cup IntegerInputs

Tails == UNION {[1..n -> TailChars] : n \in 0..TailLen}

NoCall == [op |-> "none"]

\* ---------------------------------------------------------------- the machine

Init ==
    /\ input \in Inputs
    /\ tail \in Tails
    /\ start \in 0..Len(input)
    /\ pc = "ready"
    /\ call = NoCall
    /\ result = NoResult("none", -1)
    /\ position = 0
    /\ results = <<>>

\* parser(string, start): one invocation of a composed parser value.
Call(p) ==
    /\ pc = "ready"
    /\ call' = p
    /\ result' = Invoke(p, start)
    /\ pc' = result'.outcome
    /\ UNCHANGED <<input, tail, start, position, results>>

\* Many(p)(string, start), up to the loop: int position = state.position;
\* std::vector<T> results;
ManyEnter(p) ==
    /\ pc = "ready"
    /\ call' = P_Many(p)
    /\ position' = start
    /\ results' = <<>>
    /\ pc' = "loop"
    /\ UNCHANGED <<input, tail, start, result>>

\* One pass through Many's while (true) body; on a break, the return.  Every
\* pass of a run that ends advances `position`, so such a run collects fewer
\* than Len(Mem) + MaxSpare values; the model drops what is pushed after that.
ManyPass ==
    /\ pc = "loop"
    /\ LET b == ManyBody(call.parser, position, results)
       IN  /\ position' = b.position
           /\ results' = IF Len(b.results) <= Len(Mem) + MaxSpare THEN b.results ELSE results
           /\ CASE b.next = "return" ->
                    /\ result' = Returned(Success(b.position, VectorValue(b.results)), -1)
                    /\ pc' = "returned"
                [] b.next = "abort" ->
                    /\ result' = b.tempResult
                    /\ pc' = b.tempResult.outcome
                [] b.next = "continue" ->
                    /\ pc' = "loop"
                    /\ UNCHANGED result
    /\ UNCHANGED <<input, tail, start, call>>

Next ==
    \/ \E p \in Parsers : Call(p)
    \/ \E p \in Subs : ManyEnter(p)
    \/ ManyPass

Spec == Init /\ [][Next]_vars

\* ------------------------------------------------------------------ claims

\* The invocation is over: it returned, or ended some other way.
Done == pc \notin {"ready", "loop"}

\* The parser was built by one of the four operator>> overloads.
IsSeq(p) == p.op \in {"SeqVV", "SeqVT", "SeqTV", "SeqTT"}

Succeeded(r) == r.outcome = "returned" /\ r.success

Failed(r) == r.outcome = "returned" /\ ~r.success

\* Two invocations ended the same way, with the same ParseResult.
SameResult(r1, r2) ==
    /\ r1.outcome = r2.outcome
    /\ r1.success = r2.success
    /\ r1.position = r2.position
    /\ r1.value = r2.value

\* C1: (A || B)(s, p) is A(s, p) when A succeeds; when A fails it is B(s, p),
\* B run at the same start p; when both fail it is a failure at p.
AlternationContract ==
    (Done /\ call.op = "Or") =>
        LET a == Invoke(call.first, start)
            b == Invoke(call.second, start)
        IN  /\ Succeeded(a) => SameResult(result, a)
            /\ Failed(a) => SameResult(result, b)
            /\ (Failed(a) /\ Failed(b)) => (Failed(result) /\ result.position = start)

\* C1 witness: the first branch advanced and then failed, and the second
\* branch succeeded from the start position.
AlternationBacktracked ==
    /\ Done /\ call.op = "Or"
    /\ call.first = parseab /\ Succeeded(Invoke(a1, start))
    /\ Failed(Invoke(call.first, start))
    /\ Succeeded(Invoke(call.second, start))
    /\ Succeeded(result) /\ result.position > start

\* C2: (A >> B)(s, p) runs A at p and B where A ended; both succeeding, it
\* succeeds at B's position, which is not before A's; A or B failing, it
\* fails at p.  In all four overloads.
SequenceContract ==
    (Done /\ IsSeq(call)) =>
        LET a == Invoke(call.first, start)
            b == Invoke(call.second, a.position)
        IN  /\ Failed(a) => (Failed(result) /\ result.position = start)
            /\ (Succeeded(a) /\ Failed(b)) => (Failed(result) /\ result.position = start)
            /\ (Succeeded(a) /\ Succeeded(b)) =>
                    /\ Succeeded(result)
                    /\ result.position = b.position
                    /\ result.position >= a.position
                    /\ result.value =
                          CASE call.op = "SeqVV" -> Void
                            [] call.op = "SeqVT" -> b.value
                            [] call.op = "SeqTV" -> a.value
                            [] call.op = "SeqTT" -> Pair(a.value, b.value)

\* C2 witness: the first parser of a pair-valued sequence advanced and the
\* second failed, so the sequence failed at the start, behind the first's end.
SequenceSecondFailed ==
    /\ Done /\ call.op = "SeqTT"
    /\ Succeeded(Invoke(call.first, start))
    /\ Invoke(call.first, start).position > start
    /\ Failed(Invoke(call.second, Invoke(call.first, start).position))
    /\ Failed(result) /\ result.position = start

\* C6: Not(P)(s, p) succeeds at exactly p + 1 if and only if P(s, p) fails,
\* and fails at p if and only if P(s, p) succeeds.
NotContract ==
    (Done /\ call.op = "Not") =>
        LET r == Invoke(call.parser, start)
        IN  /\ (Succeeded(result) /\ result.position = start + 1) <=> Failed(r)
            /\ (Failed(result) /\ result.position = start) <=> Succeeded(r)

\* C6 witness: Not(Char('a')) on "ba" at 0 succeeded at position 1.
NotConsumedOne ==
    /\ Done /\ call = P_Not(a1)
    /\ input = <<"b", "a">> /\ start = 0
    /\ Succeeded(result) /\ result.position = 1

\* The position behind the optional minus sign at `pos`, within the input.
AfterSign(pos) == IF pos < Length /\ input[pos + 1] = "-" THEN pos + 1 ELSE pos

\* C3: no invocation throws or aborts; it returns a ParseResult.  integer
\* returns a failure at p when no digit follows the optional minus sign.
\* Stated for the invocations that read nothing behind the terminator, whose
\* outcome the language defines.
FailureIsData ==
    (Done /\ result.maxRead <= Length) =>
        /\ result.outcome \notin {"threw", "faulted"}
        /\ (/\ call = P_Leaf("integer")
            /\ ~(AfterSign(start) < Length /\ IsDigit(input[AfterSign(start) + 1])))
              => (Failed(result) /\ result.position = start)

\* The parsers that test one character.
SingleCharLeaves ==
    {a1, b1, P_Leaf("any"), P_Leaf("letter"), P_Leaf("digit"),
     P_Leaf("whitespace"), P_Leaf("alphanumeric")}

\* C4: a primitive leaf parser started inside 0..len(s) reads no character
\* at an index >= len(s), and a single-character parser started at len(s)
\* fails there.
BoundsSafety ==
    (Done /\ call \in Leaves /\ call.op # "AnyOfChars") =>
        /\ result.maxRead < Length
        /\ (call \in SingleCharLeaves /\ start >= Length)
              => (Failed(result) /\ result.position = start)

\* The position after k consecutive successful applications of p from pos
\* (-1 when fewer than k succeed).
RECURSIVE PositionAfter(_, _, _)
PositionAfter(p, pos, k) ==
    IF k = 0 THEN pos
    ELSE LET r == Invoke(p, pos)
         IN  IF Succeeded(r) THEN PositionAfter(p, r.position, k - 1) ELSE -1

\* C5: when P matches more than max times in a row from p, Between(min,
\* max, P) succeeds with exactly the first max values, at the position right
\* after the max-th match.
BetweenCapsCollection ==
    (Done /\ call.op = "Between") =>
        LET all == Invoke(P_Many(call.parser), start)
        IN  (Succeeded(all) /\ Len(all.value.v) > call.max) =>
                /\ Succeeded(result)
                /\ result.value = VectorValue(SubSeq(all.value.v, 1, call.max))
                /\ result.position = PositionAfter(call.parser, start, call.max)

\* What does hold of Between: more than max matches make it fail at p.
BetweenChecksAfterwards ==
    (Done /\ call.op = "Between") =>
        LET all == Invoke(P_Many(call.parser), start)
        IN  (Succeeded(all) /\ Len(all.value.v) > call.max)
                => (Failed(result) /\ result.position = start)

\* The values of the consecutive successful applications of p from pos on,
\* each starting where the one before ended, up to the first application
\* that fails or the end of the input; at most k of them.
RECURSIVE Applications(_, _, _)
Applications(p, pos, k) ==
    IF k = 0 \/ pos = Length THEN [values |-> <<>>, position |-> pos]
    ELSE LET r == Invoke(p, pos)
         IN  IF Succeeded(r)
             THEN LET rest == Applications(p, r.position, k - 1)
                  IN  [values |-> <<r.value>> \o rest.values, position |-> rest.position]
             ELSE [values |-> <<>>, position |-> pos]

\* C7: Many(P)(s, p) returns success, for every P; its value is the values
\* of the consecutive successful applications of P in order, and its position
\* is the one after the last of them.
ManyCollects ==
    (Done /\ call.op = "Many") =>
        LET want == Applications(call.parser, start, Len(Mem) + 1)
        IN  /\ Succeeded(result)
            /\ result.value = VectorValue(want.values)
            /\ result.position = want.position

\* What does hold of Many: whenever it returns, it returns a success with the
\* values of the applications in order, at the position after the last.
ManyCollectsOnReturn ==
    (Done /\ call.op = "Many" /\ result.outcome = "returned") =>
        LET want == Applications(call.parser, start, Len(Mem) + 1)
        IN  /\ Succeeded(result)
            /\ result.value = VectorValue(want.values)
            /\ result.position = want.position

\* The end of the run of characters of the class from pos on, inside the input.
RECURSIVE RunEnd(_, _)
RunEnd(cls, pos) ==
    IF pos < Length /\ InClass(cls, input[pos + 1]) THEN RunEnd(cls, pos + 1) ELSE pos

\* C8: word succeeds exactly when a letter follows the whitespace skipped
\* from p; its value is then the maximal run of letters and its position the
\* end of that run; otherwise it fails at p.
WordNeedsLetter ==
    (Done /\ call = word) =>
        LET from == RunEnd("whitespace", start)
            to == RunEnd("letter", from)
        IN  /\ Succeeded(result) <=> to > from
            /\ Succeeded(result) =>
                  /\ result.value = StringValue(SubSeq(input, from + 1, to))
                  /\ result.position = to
            /\ ~(to > from) => (Failed(result) /\ result.position = start)

\* What does hold of word: started inside the input it always succeeds, with
\* the letters (none, possibly) that follow the skipped whitespace.
WordAlwaysSucceeds ==
    (Done /\ call = word) =>
        LET from == RunEnd("whitespace", start)
            to == RunEnd("letter", from)
        IN  /\ Succeeded(result)
            /\ result.value = StringValue(SubSeq(input, from + 1, to))
            /\ result.position = to

\* C9: AtLeastOne(P)(s, p) is AtLeast(1, P)(s, p).
AtLeastOneIsAtLeast1 ==
    (Done /\ call.op = "AtLeastOne") =>
        SameResult(result, Invoke(P_AtLeast(1, call.parser), start))

\* C10: Many's loop reaches its return, whatever the sub-parser.  The
\* sub-parser is a pure function of the string and the position, and the
\* position is all the loop's control reads: a pass that goes on to another
\* pass at an unchanged position is followed by that same pass for ever.  So
\* the loop ends only if every pass that stays in the loop moves the position.
ManyTerminates ==
    [][(pc = "loop" /\ pc' = "loop") => position' # position]_vars

\* What does hold of positions: a success never ends before its start.
PositionsNeverRetreat ==
    (Done /\ Succeeded(result)) => start <= result.position

\* C11: a parser started at p inside 0..len(s) that succeeds ends at a
\* position q with p <= q <= len(s).  Stated for the invocations that read
\* nothing behind the terminator, whose outcome the language defines.
PositionsStayInside ==
    (Done /\ Succeeded(result) /\ result.maxRead <= Length) =>
        (start <= result.position /\ result.position <= Length)

====
